---------------------------- MODULE Spec2Model ----------------------------
(***************************************************************************)
(* A model of the poker agent: the opponent model (opponent_modeling.py),  *)
(* the bluff trigger (bluffing_module.py), the decision engine             *)
(* (decision_engine.py) and the game loop (holdem.py).                     *)
(*                                                                         *)
(* Conventions.                                                            *)
(*  - A Python string is a sequence of one-character strings.  The suit    *)
(*    symbols U+2660, U+2665, U+2666, U+2663 are written "spade", "heart", *)
(*    "diamond", "club"; the deuces suit letters are "s", "h", "d", "c".   *)
(*    Python's index i is index i+1 here.                                  *)
(*  - A deuces card (Card.new) is a pair <<rank_int, suit letter>> with    *)
(*    rank_int in 0..12 (deuce .. ace).                                    *)
(*  - Probabilities and ratios are exact: a win rate is an integer number  *)
(*    of thousandths, a random draw u is U / DrawGrid, a fraction is a     *)
(*    reduced pair <<numerator, denominator>>.                             *)
(***************************************************************************)
EXTENDS Integers, Sequences, FiniteSets, TLC

(***************************************************************************)
(* Small arithmetic helpers.                                               *)
(***************************************************************************)
RECURSIVE Gcd(_, _)
Gcd(a, b) ==
    IF b = 0 THEN a ELSE Gcd(b, a % b)

\* the fraction n/d (d > 0, n >= 0) in lowest terms
Frac(n, d) ==
    LET g == Gcd(n, d) IN IF n = 0 THEN <<0, 1>> ELSE <<n \div g, d \div g>>

FracAdd(p, q) ==
    Frac(p[1] * q[2] + q[1] * p[2], p[2] * q[2])

\* p > q for fractions with positive denominators
FracGt(p, q) ==
    p[1] * q[2] > q[1] * p[2]

RECURSIVE Binom(_, _)
Binom(n, k) ==
    IF k = 0 THEN 1
    ELSE IF n < k THEN 0
    ELSE (Binom(n - 1, k - 1) * n) \div k

Max2(a, b) ==
    IF a >= b THEN a ELSE b

Min2(a, b) ==
    IF a <= b THEN a ELSE b

(***************************************************************************)
(* Cards.                                                                  *)
(***************************************************************************)
\* holdem.py: suits and ranks of the deck, in the order create_deck uses
suits ==
    <<"spade", "heart", "diamond", "club">>

ranks ==
    <<"2", "3", "4", "5", "6", "7", "8", "9", "T", "J", "Q", "K", "A">>

SeqToSet(s) ==
    {s[i] : i \in DOMAIN s}

\* create_deck: [rank + suit for suit in suits for rank in ranks]
create_deck ==
    [i \in 1..52 |-> <<ranks[((i - 1) % 13) + 1], suits[((i - 1) \div 13) + 1]>>]

\* deuces Card.STR_RANKS = '23456789TJQKA' and the suit letters
RankChars ==
    SeqToSet(ranks)

CharRankToInt(c) ==
    CHOOSE i \in 0..12 : ranks[i + 1] = c

SuitLetters ==
    {"s", "h", "d", "c"}

\* deuces Card.new(string): rank_char = string[0], suit_char = string[1], each
\* looked up in a table; a short string or an unknown character raises.
CardNewRaises(string) ==
    \/ Len(string) < 2
    \/ string[1] \notin RankChars
    \/ string[2] \notin SuitLetters

CardNew(string) ==
    <<CharRankToInt(string[1]), string[2]>>

(***************************************************************************)
(* The deuces Evaluator: the rank of a hand, 1 (royal flush) .. 7462       *)
(* (7-5-4-3-2 unsuited), lower is better.  Within a category the hands are *)
(* numbered best first, as deuces' lookup table numbers them.              *)
(***************************************************************************)
\* S: a set of distinct rank_ints; Removed: rank_ints that cannot occur in
\* it.  The number of sets of the same size, drawn from the other ranks,
\* that beat S card for card from the highest down.
Better(S, Removed) ==
    LET red(e) == e - Cardinality({q \in Removed : q < e})
        pos(e) == Cardinality({x \in S : x <= e})
        f[r \in -1..12] ==
            IF r = -1 THEN 0
            ELSE f[r - 1] + (IF r \in S THEN Binom(red(r), pos(r)) ELSE 0)
    IN Binom(13 - Cardinality(Removed), Cardinality(S)) - 1 - f[12]

Wheel ==
    {12, 0, 1, 2, 3}

Straights ==
    {Wheel} \cup {k..(k + 4) : k \in 0..8}

StraightHigh(S) ==
    IF S = Wheel THEN 3 ELSE CHOOSE m \in S : \A x \in S : x <= m

\* the five cards cards[i], i in idx
Rank5(cards, idx) ==
    LET R       == {cards[i][1] : i \in idx}
        cnt(r)  == Cardinality({i \in idx : cards[i][1] = r})
        flush   == \A i, j \in idx : cards[i][2] = cards[j][2]
        quads   == {r \in R : cnt(r) = 4}
        trips   == {r \in R : cnt(r) = 3}
        pairs   == {r \in R : cnt(r) = 2}
        singles == {r \in R : cnt(r) = 1}
        top(S)  == CHOOSE m \in S : \A x \in S : x <= m
    IN  IF Cardinality(R) = 5 THEN
            IF R \in Straights
            THEN (IF flush THEN 1 ELSE 1600) + (12 - StraightHigh(R))
            ELSE (IF flush THEN 323 ELSE 6186) + Better(R, {})
                 - Cardinality({T \in Straights : Better(T, {}) < Better(R, {})})
        ELSE IF quads # {} THEN
            11 + (12 - top(quads)) * 12 + Better(singles, quads)
        ELSE IF trips # {} /\ pairs # {} THEN
            167 + (12 - top(trips)) * 12 + Better(pairs, trips)
        ELSE IF trips # {} THEN
            1610 + (12 - top(trips)) * 66 + Better(singles, trips)
        ELSE IF Cardinality(pairs) = 2 THEN
            2468 + Better(pairs, {}) * 11 + Better(singles, pairs)
        ELSE
            3326 + (12 - top(pairs)) * 220 + Better(singles, pairs)

\* Evaluator._five raises KeyError on a hand no table holds: five cards of
\* one suit with a repeated rank, or five cards of one rank (either needs a
\* repeated card).
Rank5Raises(cards, idx) ==
    LET R == {cards[i][1] : i \in idx}
    IN  \/ (\A i, j \in idx : cards[i][2] = cards[j][2]) /\ Cardinality(R) < 5
        \/ Cardinality(R) = 1

\* Evaluator.evaluate raises KeyError unless it is given 5, 6 or 7 cards
EvaluatorRaises(cards, board) ==
    LET all  == cards \o board
    IN  \/ Len(all) \notin {5, 6, 7}
        \/ \E idx \in SUBSET (DOMAIN all) : Cardinality(idx) = 5 /\ Rank5Raises(all, idx)

\* Evaluator.evaluate(cards, board): the best five of the 5, 6 or 7 cards
EvaluatorEvaluate(cards, board) ==
    LET all  == cards \o board
        fives == {idx \in SUBSET (DOMAIN all) : Cardinality(idx) = 5}
        r5[idx \in fives] == Rank5(all, idx)
    IN  CHOOSE m \in {r5[idx] : idx \in fives} : \A idx \in fives : m <= r5[idx]

(***************************************************************************)
(* opponent_modeling.py: OpponentModel.                                    *)
(***************************************************************************)
PlayerIds ==
    {1, 2}

\* OpponentModel.__init__: min_hands_for_ml and playstyle_labels
min_hands_for_ml ==
    50

playstyle_labels ==
    {"aggressive", "passive", "tight", "loose"}

\* None / pandas NA in a text column; in a column of card text
NA ==
    "<NA>"

NAChars ==
    <<"<NA>">>

\* compute_features returns None
None ==
    [none |-> TRUE]

\* ''.join(list of strings)
RECURSIVE Join(_)
Join(strs) ==
    IF strs = <<>> THEN <<>> ELSE Head(strs) \o Join(Tail(strs))

\* str.replace(',', '')
ReplaceComma(str) ==
    SelectSeq(str, LAMBDA c : c # ",")

\* list[:n]
Prefix(list, n) ==
    SubSeq(list, 1, Min2(n, Len(list)))

\* _initialize_csv / read_csv: an empty cell of a text column is read as NA
ReadCsvRow(cells) ==
    [cells EXCEPT !.hand = IF @ = <<>> THEN NAChars ELSE @,
                  !.flop = IF @ = <<>> THEN NAChars ELSE @,
                  !.turn = IF @ = <<>> THEN NAChars ELSE @,
                  !.river = IF @ = <<>> THEN NAChars ELSE @,
                  !.result1 = IF @ = "" THEN NA ELSE @,
                  !.result2 = IF @ = "" THEN NA ELSE @,
                  !.result3 = IF @ = "" THEN NA ELSE @,
                  !.playstyle_label = IF @ = "" THEN NA ELSE @,
                  !.action_flop = IF @ = "" THEN NA ELSE @,
                  !.action_turn = IF @ = "" THEN NA ELSE @,
                  !.action_river = IF @ = "" THEN NA ELSE @]

\* DataFrame.to_csv: NA is written as an empty cell, and so is ''
ToCsvRow(row) ==
    [row EXCEPT !.hand = IF @ = NAChars THEN <<>> ELSE @,
                !.flop = IF @ = NAChars THEN <<>> ELSE @,
                !.turn = IF @ = NAChars THEN <<>> ELSE @,
                !.river = IF @ = NAChars THEN <<>> ELSE @,
                !.result1 = IF @ = NA THEN "" ELSE @,
                !.result2 = IF @ = NA THEN "" ELSE @,
                !.result3 = IF @ = NA THEN "" ELSE @,
                !.playstyle_label = IF @ = NA THEN "" ELSE @,
                !.action_flop = IF @ = NA THEN "" ELSE @,
                !.action_turn = IF @ = NA THEN "" ELSE @,
                !.action_river = IF @ = NA THEN "" ELSE @]

\* OpponentModel(): empty in-memory history and counters, an unfitted
\* classifier, and data loaded from the csv file (which it rewrites)
NewOpponentModel(file) ==
    [opponent_data        |-> [p \in PlayerIds |-> <<>>],
     opponent_features    |-> [p \in PlayerIds |-> None],
     opponent_hands_count |-> [p \in PlayerIds |-> 0],
     fitted               |-> FALSE,
     data                 |-> [i \in DOMAIN file |-> ReadCsvRow(file[i])]]

InitializeCsv(file) ==
    [i \in DOMAIN file |-> ToCsvRow(ReadCsvRow(file[i]))]

\* _convert_card_to_deuces(card): suit symbol first, then the rank
ConvertCardRaises(card) ==
    Len(card) < 2

suit_map(c) ==
    CASE c = "club" -> <<"c">>
      [] c = "heart" -> <<"h">>
      [] c = "diamond" -> <<"d">>
      [] c = "spade" -> <<"s">>
      [] OTHER -> <<>>

_convert_card_to_deuces(card) ==
    LET rank == IF card[2] \in RankChars THEN <<card[2]>>
                ELSE IF Len(card) >= 3 /\ card[2] = "1" /\ card[3] = "0"
                     THEN <<"1", "0">>
                     ELSE <<>>
        suit == suit_map(card[1])
    IN  rank \o suit

_rank_to_strength(rank) ==
    IF rank <= 1 THEN "ROYAL FLUSH"
    ELSE IF rank <= 10 THEN "STRAIGHT FLUSH"
    ELSE IF rank <= 166 THEN "FOUR OF A KIND"
    ELSE IF rank <= 322 THEN "FULL HOUSE"
    ELSE IF rank <= 1599 THEN "FLUSH"
    ELSE IF rank <= 1609 THEN "STRAIGHT"
    ELSE IF rank <= 2467 THEN "THREE OF A KIND"
    ELSE IF rank <= 3325 THEN "TWO PAIR"
    ELSE IF rank <= 6185 THEN "PAIR"
    ELSE "NOTHING"

\* update_opponent_data, lines 84-99: the strength labels; any exception
\* leaves the labels not yet assigned empty
CardsConvertRaise(cards) ==
    \E i \in DOMAIN cards :
        \/ ConvertCardRaises(cards[i])
        \/ CardNewRaises(_convert_card_to_deuces(cards[i]))

ConvertCards(cards) ==
    [i \in DOMAIN cards |-> CardNew(_convert_card_to_deuces(cards[i]))]

HandStrengthResults(player_hand, community_cards) ==
    LET empty == <<"", "", "">>
    IN  IF ~(player_hand # <<>> /\ Len(community_cards) >= 3) THEN empty
        ELSE IF CardsConvertRaise(player_hand) \/ CardsConvertRaise(community_cards)
        THEN empty
        ELSE
          LET hole_cards == ConvertCards(player_hand)
              board == ConvertCards(community_cards)
              ok(n) == /\ Len(board) >= n
                       /\ \A m \in 3..n : ~EvaluatorRaises(Prefix(board, m), hole_cards)
              res(n) == IF ok(n)
                        THEN _rank_to_strength(EvaluatorEvaluate(Prefix(board, n), hole_cards))
                        ELSE ""
          IN  <<res(3), res(4), res(5)>>

\* a variant that files a Pre-Flop action under the flop
StageSlotPreFlopAsFlop(stage, player_action, player_bet, pot_size) ==
    LET normalized_bet == IF pot_size > 0 THEN Frac(player_bet, pot_size) ELSE <<0, 1>>
        zero == <<0, 1>>
        flop == stage \in {"Flop", "Pre-Flop"}
    IN  [action_flop   |-> IF flop THEN player_action ELSE "",
         bet_size_flop |-> IF flop THEN normalized_bet ELSE zero,
         action_turn   |-> IF stage = "Turn" THEN player_action ELSE "",
         bet_size_turn |-> IF stage = "Turn" THEN normalized_bet ELSE zero,
         action_river  |-> IF stage = "River" THEN player_action ELSE "",
         bet_size_river |-> IF stage = "River" THEN normalized_bet ELSE zero]

\* update_opponent_data, lines 101-113: the action and bet of the stage's slot
StageSlot(stage, player_action, player_bet, pot_size) ==
    LET normalized_bet == IF pot_size > 0 THEN Frac(player_bet, pot_size) ELSE <<0, 1>>
        zero == <<0, 1>>
    IN  [action_flop   |-> IF stage = "Flop" THEN player_action ELSE "",
         bet_size_flop |-> IF stage = "Flop" THEN normalized_bet ELSE zero,
         action_turn   |-> IF stage = "Turn" THEN player_action ELSE "",
         bet_size_turn |-> IF stage = "Turn" THEN normalized_bet ELSE zero,
         action_river  |-> IF stage = "River" THEN player_action ELSE "",
         bet_size_river |-> IF stage = "River" THEN normalized_bet ELSE zero]

\* update_opponent_data, lines 78-81 and 116-132: new_row
NewRow(player_hand, community_cards, stage, player_action, player_bet, pot_size, player_id) ==
    LET results == HandStrengthResults(player_hand, community_cards)
        slot == StageSlot(stage, player_action, player_bet, pot_size)
        upto(n) == IF Len(community_cards) >= n
                   THEN ReplaceComma(Join(Prefix(community_cards, n))) ELSE <<>>
    IN  [hand    |-> IF player_hand # <<>> THEN ReplaceComma(Join(player_hand)) ELSE <<>>,
         flop    |-> upto(3),
         result1 |-> results[1],
         turn    |-> upto(4),
         result2 |-> results[2],
         river   |-> upto(5),
         result3 |-> results[3],
         player_id |-> player_id,
         playstyle_label |-> NA,
         action_flop   |-> slot.action_flop,
         bet_size_flop |-> slot.bet_size_flop,
         action_turn   |-> slot.action_turn,
         bet_size_turn |-> slot.bet_size_turn,
         action_river  |-> slot.action_river,
         bet_size_river |-> slot.bet_size_river]

\* update_opponent_data, lines 133-139, on the model om: the row built is
\* appended to the player's records and to the data, the counter goes up
update_opponent_data(om, new_row) ==
    [om EXCEPT !.opponent_data[new_row.player_id] = Append(@, new_row),
               !.opponent_hands_count[new_row.player_id] = @ + 1,
               !.data = Append(@, new_row)]

\* compute_features, lines 191-206: the counters over a player's records
ActionSlots(hand_data) ==
    <<hand_data.action_flop, hand_data.action_turn, hand_data.action_river>>

BetSlots(hand_data) ==
    <<hand_data.bet_size_flop, hand_data.bet_size_turn, hand_data.bet_size_river>>

\* action_counts[action] after the loop: the slots, over all records, holding it
ActionCount(hands, action) ==
    Cardinality({s \in (DOMAIN hands) \X (1..3) : ActionSlots(hands[s[1]])[s[2]] = action})

\* the sum of the non-zero bets of records lo..hi (summed by halves: the
\* sum is exact, so the order of the additions does not matter)
RECURSIVE BetSum(_, _, _)
BetSum(hands, lo, hi) ==
    IF lo > hi THEN <<0, 1>>
    ELSE IF lo = hi
    THEN LET b == BetSlots(hands[lo])
         IN  FracAdd(b[1], FracAdd(b[2], b[3]))
    ELSE FracAdd(BetSum(hands, lo, (lo + hi) \div 2),
                 BetSum(hands, (lo + hi) \div 2 + 1, hi))

\* bet_sizes after the loop, as <<their sum, their number>>
BetSizes(hands) ==
    <<BetSum(hands, 1, Len(hands)),
      Cardinality({s \in (DOMAIN hands) \X (1..3) : BetSlots(hands[s[1]])[s[2]][1] # 0})>>

IsWeakHand(hand_data) ==
    hand_data.result3 \in {"NOTHING", "PAIR"}

WeakHandCount(hands) ==
    Cardinality({i \in DOMAIN hands : IsWeakHand(hands[i])})

WeakHandAggressive(hands) ==
    Cardinality({i \in DOMAIN hands :
        IsWeakHand(hands[i]) /\ hands[i].action_river \in {"raise", "bet"}})

WeakHandRiver(hands) ==
    Cardinality({i \in DOMAIN hands :
        IsWeakHand(hands[i]) /\ hands[i].action_river # ""})

\* a variant whose action frequencies are taken over the records that hold
\* an action, not over all of them
compute_features_acted(om, player_id) ==
    LET hands == om.opponent_data[player_id]
        total_hands == Len(hands)
        acted == Max2(1, Cardinality({i \in DOMAIN hands :
                                        ActionSlots(hands[i]) # <<"", "", "">>}))
        bets == BetSizes(hands)
        weak_hand_count == WeakHandCount(hands)
        or1 == IF weak_hand_count = 0 THEN 1 ELSE weak_hand_count
    IN  IF total_hands = 0 THEN None
        ELSE [raise_freq |-> Frac(ActionCount(hands, "raise"), acted),
              call_freq  |-> Frac(ActionCount(hands, "call"), acted),
              fold_freq  |-> Frac(ActionCount(hands, "fold"), acted),
              avg_bet_size |-> IF bets[2] = 0 THEN <<0, 1>>
                               ELSE Frac(bets[1][1], bets[1][2] * bets[2]),
              weak_hand_river_freq |-> Frac(WeakHandRiver(hands), or1),
              weak_hand_aggressiveness |-> Frac(WeakHandAggressive(hands), or1)]

\* compute_features(player_id): None, or the feature dictionary
compute_features(om, player_id) ==
    LET hands == om.opponent_data[player_id]
        total_hands == Len(hands)
        bets == BetSizes(hands)
        weak_hand_count == WeakHandCount(hands)
        or1 == IF weak_hand_count = 0 THEN 1 ELSE weak_hand_count
    IN  IF total_hands = 0 THEN None
        ELSE [raise_freq |-> Frac(ActionCount(hands, "raise"), total_hands),
              call_freq  |-> Frac(ActionCount(hands, "call"), total_hands),
              fold_freq  |-> Frac(ActionCount(hands, "fold"), total_hands),
              avg_bet_size |-> IF bets[2] = 0 THEN <<0, 1>>
                               ELSE Frac(bets[1][1], bets[1][2] * bets[2]),
              weak_hand_river_freq |-> Frac(WeakHandRiver(hands), or1),
              weak_hand_aggressiveness |-> Frac(WeakHandAggressive(hands), or1)]

\* compute_features, line 216: the features are cached on the model
CacheFeatures(om, player_id) ==
    IF compute_features(om, player_id) = None THEN om
    ELSE [om EXCEPT !.opponent_features[player_id] = compute_features(om, player_id)]

\* a variant that tests the fold rule before the raise rule
HeuristicRulesTightFirst(features) ==
    IF features = None THEN "unknown"
    ELSE IF FracGt(features.fold_freq, <<6, 10>>) THEN "tight"
    ELSE IF \/ FracGt(features.raise_freq, <<3, 10>>)
            \/ FracGt(features.weak_hand_aggressiveness, <<5, 10>>)
         THEN "aggressive"
    ELSE IF FracGt(features.call_freq, <<5, 10>>) THEN "passive"
    ELSE IF FracGt(features.weak_hand_river_freq, <<5, 10>>) THEN "loose"
    ELSE "unknown"

\* _heuristic_playstyle, lines 270-282: the rules, on the features computed
HeuristicRules(features) ==
    IF features = None THEN "unknown"
    ELSE IF \/ FracGt(features.raise_freq, <<3, 10>>)
            \/ FracGt(features.weak_hand_aggressiveness, <<5, 10>>)
         THEN "aggressive"
    ELSE IF FracGt(features.fold_freq, <<6, 10>>) THEN "tight"
    ELSE IF FracGt(features.call_freq, <<5, 10>>) THEN "passive"
    ELSE IF FracGt(features.weak_hand_river_freq, <<5, 10>>) THEN "loose"
    ELSE "unknown"

\* _heuristic_playstyle(player_id)
_heuristic_playstyle(om, player_id) ==
    HeuristicRules(compute_features(om, player_id))

\* a variant whose fallback after a failed inference is 'unknown'
predict_playstyle_unknown(om, player_id) ==
    IF om.opponent_hands_count[player_id] < min_hands_for_ml
    THEN {_heuristic_playstyle(om, player_id)}
    ELSE IF compute_features(om, player_id) = None THEN {"unknown"}
    ELSE IF om.fitted THEN playstyle_labels
    ELSE {"unknown"}

\* predict_playstyle(player_id): the labels it can return.  Inference on an
\* unfitted classifier raises and falls back to the heuristic; a fitted
\* classifier returns one of the labels it was trained on.
predict_playstyle(om, player_id) ==
    IF om.opponent_hands_count[player_id] < min_hands_for_ml
    THEN {_heuristic_playstyle(om, player_id)}
    ELSE IF compute_features(om, player_id) = None THEN {"unknown"}
    ELSE IF om.fitted THEN playstyle_labels
    ELSE {_heuristic_playstyle(om, player_id)}

(***************************************************************************)
(* bluffing_module.py: should_bluff.                                       *)
(*                                                                         *)
(* An aggression level is given in tenths (9 is 0.9), a stage weight in    *)
(* tenths, and the random draw as U, standing for u = U / DrawGrid.        *)
(***************************************************************************)
\* the number of values a uniform draw from [0, 1) takes in the model
DrawGrid ==
    10

Draws ==
    0..(DrawGrid - 1)

\* stage_weight.get(stage, 0.3), in tenths
stage_factor(stage) ==
    CASE stage = "Pre-Flop" -> 2
      [] stage = "Flop" -> 3
      [] stage = "Turn" -> 4
      [] stage = "River" -> 5
      [] OTHER -> 3

\* the playstyle a function gets from its own OpponentModel() (lines 32-34 of
\* should_bluff, 177-179 of make_ai_decision): the model is built on entry,
\* never fitted, and holds no history of its own, so one label is possible
FreshPlaystyle(file) ==
    CHOOSE label \in predict_playstyle(NewOpponentModel(file), 1) : TRUE

\* lines 36-40: the aggression multiplier, in tenths
PlaystyleFactor(playstyle) ==
    IF playstyle \in {"passive", "tight"} THEN 12
    ELSE IF playstyle \in {"aggressive", "loose"} THEN 8
    ELSE 10

\* bluff_chance * 10000 = (aggression * factor) * (pot_factor + stage_factor)
BluffChance(playstyle, pot_size, stage, aggression_level) ==
    aggression_level * PlaystyleFactor(playstyle)
        * (Min2(pot_size, 100) + 10 * stage_factor(stage))

\* mutant of is_weak_hand: the boundary strength 6000 counts as weak
is_weak_hand_inclusive(ai_hand_strength) ==
    ai_hand_strength >= 6000

is_weak_hand(ai_hand_strength) ==
    ai_hand_strength > 6000

\* should_bluff(ai_hand_strength, pot_size, stage, aggression_level) with the
\* csv file as it finds it and the draw U
should_bluff(file, ai_hand_strength, pot_size, stage, aggression_level, U) ==
    /\ is_weak_hand(ai_hand_strength)
    /\ U * 10000 < DrawGrid * BluffChance(FreshPlaystyle(file), pot_size, stage,
                                         aggression_level)

(***************************************************************************)
(* decision_engine.py.                                                     *)
(***************************************************************************)
\* convert_card(card_str): rank character first, then the suit symbol; an
\* unknown character raises KeyError
ConvertCardStrRaises(card_str) ==
    \/ Len(card_str) < 2
    \/ card_str[1] \notin RankChars
    \/ card_str[2] \notin SeqToSet(suits)

convert_card(card_str) ==
    CardNew(<<card_str[1], Head(suit_map(card_str[2]))>>)

convert_hand(hand) ==
    [i \in DOMAIN hand |-> convert_card(hand[i])]

\* a variant without the bonus for two cards of one suit
estimate_preflop_strength_unsuited(hand) ==
    LET r1 == hand[1][1]
        r2 == hand[2][1]
        v1 == CharRankToInt(r1) + 2
        v2 == CharRankToInt(r2) + 2
        base == Max2(v1, v2) * 2
        paired == IF r1 = r2 THEN 30 ELSE 0
        close == IF v1 - v2 = 1 \/ v2 - v1 = 1 THEN 5 ELSE 0
    IN  Min2(base + paired + close, 100)

\* estimate_preflop_strength(hand)
estimate_preflop_strength(hand) ==
    LET r1 == hand[1][1]
        s1 == hand[1][2]
        r2 == hand[2][1]
        s2 == hand[2][2]
        v1 == CharRankToInt(r1) + 2
        v2 == CharRankToInt(r2) + 2
        base == Max2(v1, v2) * 2
        paired == IF r1 = r2 THEN 30 ELSE 0
        suited == IF s1 = s2 THEN 10 ELSE 0
        close == IF v1 - v2 = 1 \/ v2 - v1 = 1 THEN 5 ELSE 0
    IN  Min2(base + paired + suited + close, 100)

\* monte_carlo_win_rate's default num_simulations
num_simulations ==
    1000

\* lines 182-195: win_rate_threshold (thousandths), bluff_aggression (tenths)
win_rate_threshold(playstyle) ==
    IF playstyle \in {"aggressive", "loose"} THEN 800
    ELSE IF playstyle \in {"passive", "tight"} THEN 700
    ELSE 750

bluff_aggression(playstyle) ==
    IF playstyle \in {"aggressive", "loose"} THEN 7
    ELSE IF playstyle \in {"passive", "tight"} THEN 10
    ELSE 9

\* a variant of IntTimes15 that takes half of x
IntTimes05(x) ==
    x \div 2

\* int(x * 1.5) and int(x * 0.1) for an integer x >= 0
IntTimes15(x) ==
    (3 * x) \div 2

IntTimes01(x) ==
    x \div 10

\* a bluff is recorded: total_bluffs += 1, and on the two bet paths
\* successful_bluffs += 1 as well
RecordBluff(stats, successful) ==
    [stats EXCEPT !.total_bluffs = @ + 1,
                  !.successful_bluffs = IF successful THEN @ + 1 ELSE @]

\* mutant of PreFlopDecision: a bet is answered by a fold on every score
\* below 50, whatever the playstyle
PreFlopDecisionFoldsWeak(stats, playstyle, ai_hand, player_action, u_pre) ==
    LET score == estimate_preflop_strength(ai_hand)
    IN  IF player_action = "check" THEN
            IF 10 * u_pre < 3 * DrawGrid \/ score > 60
            THEN [action |-> "bet", amount |-> 20, stats |-> RecordBluff(stats, TRUE)]
            ELSE [action |-> "check", amount |-> 0, stats |-> stats]
        ELSE
            IF score < 50
            THEN [action |-> "fold", amount |-> 0, stats |-> stats]
            ELSE [action |-> "call", amount |-> 0, stats |-> stats]

\* a variant that bets after a check on every score above 50
PreFlopDecisionBetsAbove50(stats, playstyle, ai_hand, player_action, u_pre) ==
    LET score == estimate_preflop_strength(ai_hand)
    IN  IF player_action = "check" THEN
            IF 10 * u_pre < 3 * DrawGrid \/ score > 50
            THEN [action |-> "bet", amount |-> 20, stats |-> RecordBluff(stats, TRUE)]
            ELSE [action |-> "check", amount |-> 0, stats |-> stats]
        ELSE
            IF playstyle = "aggressive" /\ score < 50
            THEN [action |-> "fold", amount |-> 0, stats |-> stats]
            ELSE [action |-> "call", amount |-> 0, stats |-> stats]

\* lines 197-215: the pre-flop branch; u_pre is its random.random()
PreFlopDecision(stats, playstyle, ai_hand, player_action, u_pre) ==
    LET score == estimate_preflop_strength(ai_hand)
    IN  IF player_action = "check" THEN
            IF 10 * u_pre < 3 * DrawGrid \/ score > 60
            THEN [action |-> "bet", amount |-> 20, stats |-> RecordBluff(stats, TRUE)]
            ELSE [action |-> "check", amount |-> 0, stats |-> stats]
        ELSE
            IF playstyle = "aggressive" /\ score < 50
            THEN [action |-> "fold", amount |-> 0, stats |-> stats]
            ELSE [action |-> "call", amount |-> 0, stats |-> stats]

\* win_rate > t, for win_rate = wins / num_simulations and t in thousandths
WinRateAbove(wins, t) ==
    wins * 1000 > t * num_simulations

\* mutant of PostFlopBranches: after a check the comparison with 0.4 comes
\* first, and after a bet the bluff is tried before the win rate is looked at
PostFlopBranchesReordered(stats, threshold, player_action, pot_size, last_player_bet, wins, coin, bluffs) ==
    LET bluff_raise == Max2(Max2(IntTimes15(last_player_bet), IntTimes01(pot_size)), 10)
    IN  IF player_action = "check" THEN
            IF WinRateAbove(wins, 400)
            THEN IF coin = 0
                 THEN [action |-> "check", amount |-> 0, stats |-> stats]
                 ELSE [action |-> "bet", amount |-> 30, stats |-> stats]
            ELSE IF bluffs
            THEN [action |-> "bet", amount |-> 30, stats |-> RecordBluff(stats, TRUE)]
            ELSE [action |-> "check", amount |-> 0, stats |-> stats]
        ELSE IF player_action = "bet" THEN
            IF bluffs
            THEN [action |-> "raise", amount |-> bluff_raise,
                  stats |-> RecordBluff(stats, FALSE)]
            ELSE IF WinRateAbove(wins, threshold)
            THEN [action |-> "call", amount |-> 0, stats |-> stats]
            ELSE [action |-> "fold", amount |-> 0, stats |-> stats]
        ELSE [action |-> "check", amount |-> 0, stats |-> stats]

\* lines 221-251: the branches after the win rate is known; bluffs is what
\* should_bluff returns where a branch consults it
PostFlopBranches(stats, threshold, player_action, pot_size, last_player_bet, wins, coin, bluffs) ==
    LET bluff_raise == Max2(Max2(IntTimes15(last_player_bet), IntTimes01(pot_size)), 10)
    IN  IF player_action = "check" THEN
            IF WinRateAbove(wins, threshold)
            THEN [action |-> "check", amount |-> 0, stats |-> stats]
            ELSE IF WinRateAbove(wins, 400)
            THEN IF coin = 0
                 THEN [action |-> "check", amount |-> 0, stats |-> stats]
                 ELSE [action |-> "bet", amount |-> 30, stats |-> stats]
            ELSE IF bluffs
            THEN [action |-> "bet", amount |-> 30, stats |-> RecordBluff(stats, TRUE)]
            ELSE [action |-> "check", amount |-> 0, stats |-> stats]
        ELSE IF player_action = "bet" THEN
            IF WinRateAbove(wins, threshold)
            THEN [action |-> "call", amount |-> 0, stats |-> stats]
            ELSE IF bluffs
            THEN [action |-> "raise", amount |-> bluff_raise,
                  stats |-> RecordBluff(stats, FALSE)]
            ELSE [action |-> "fold", amount |-> 0, stats |-> stats]
        ELSE [action |-> "check", amount |-> 0, stats |-> stats]

\* lines 217-251: the post-flop branch; wins is the number of simulations
\* monte_carlo_win_rate counted as won, coin the pick of random.choice,
\* u_bluff the draw of should_bluff
PostFlopDecision(file, stats, playstyle, player_action, pot_size, stage, last_player_bet, wins, coin, u_bluff) ==
    PostFlopBranches(stats, win_rate_threshold(playstyle), player_action, pot_size,
                     last_player_bet, wins, coin,
                     should_bluff(file, 7000, pot_size, stage,
                                  bluff_aggression(playstyle), u_bluff))

\* lines 181-251, with the playstyle of line 179
DecideFor(playstyle, file, stats, ai_hand, community_cards, player_action, pot_size, stage, last_player_bet, u_pre, wins, coin, u_bluff) ==
    [playstyle |-> playstyle,
     win_rate_threshold |-> win_rate_threshold(playstyle),
     bluff_aggression |-> bluff_aggression(playstyle),
     decision |-> IF Len(community_cards) < 3
                  THEN PreFlopDecision(stats, playstyle, ai_hand, player_action, u_pre)
                  ELSE PostFlopDecision(file, stats, playstyle, player_action, pot_size,
                                        stage, last_player_bet, wins, coin, u_bluff)]

\* make_ai_decision(ai_hand, community_cards, player_action, pot_size, stage,
\* last_player_bet): the decision, the bluff statistics afterwards, and the
\* locals playstyle, win_rate_threshold and bluff_aggression
make_ai_decision(file, stats, ai_hand, community_cards, player_action, pot_size, stage, last_player_bet, u_pre, wins, coin, u_bluff) ==
    DecideFor(FreshPlaystyle(file), file, stats, ai_hand, community_cards,
              player_action, pot_size, stage, last_player_bet, u_pre, wins, coin, u_bluff)

(***************************************************************************)
(* State.                                                                  *)
(***************************************************************************)
VARIABLES
    csv_file,        \* the rows of poker_dataset.csv, as cells
    opponent_model,  \* the caller's OpponentModel (play_round's opponent_model)
    bluff_stats,     \* decision_engine.bluff_stats
    call,            \* the call being made: its name and arguments
    ret,             \* what the last call returned, and the locals it chose
    game,            \* play_round: its position and locals
    mc               \* monte_carlo_win_rate: its position and locals

vars ==
    <<csv_file, opponent_model, bluff_stats, call, ret, game, mc>>

NoCall ==
    [op |-> "none"]

NoGame ==
    [pc |-> "none"]

NoMc ==
    [pc |-> "none"]

ZeroStats ==
    [total_bluffs |-> 0, successful_bluffs |-> 0, failed_bluffs |-> 0]

StageNames ==
    {"Pre-Flop", "Flop", "Turn", "River"}

\* card text as the game loop writes it: rank character, then suit symbol
G(rank, suit) ==
    <<rank, suit>>

\* card text as _convert_card_to_deuces reads it: suit symbol, then rank
S(suit, rank) ==
    <<suit, rank>>

(***************************************************************************)
(* SpecEngine: single calls of make_ai_decision and should_bluff, on every *)
(* combination of the sample arguments, csv files and random draws below.  *)
(***************************************************************************)
\* csv files a call may find: none written yet, or the rows a session left
\* for player 1 (two calls on Flop and Turn; two raises)
CallingRows ==
    LET hand == <<G("9", "club"), G("4", "heart")>>
        flop == <<G("K", "spade"), G("7", "diamond"), G("2", "club")>>
    IN  <<ToCsvRow(NewRow(hand, <<>>, "Pre-Flop", "check", 0, 0, 1)),
          ToCsvRow(NewRow(hand, flop, "Flop", "call", 30, 60, 1)),
          ToCsvRow(NewRow(hand, flop \o <<G("3", "spade")>>, "Turn", "call", 30, 120, 1))>>

RaisingRows ==
    LET hand == <<S("club", "9"), S("heart", "4")>>
        flop == <<S("spade", "K"), S("diamond", "7"), S("club", "2")>>
    IN  <<ToCsvRow(NewRow(hand, flop, "Flop", "raise", 40, 60, 1)),
          ToCsvRow(NewRow(hand, flop, "Flop", "raise", 40, 60, 1))>>

SampleFiles ==
    {<<>>, CallingRows, RaisingRows}

\* <<ai_hand, community_cards>>; the last hand repeats a card, which no deal
\* produces but the function accepts
EngineCards ==
    LET AA  == <<G("A", "spade"), G("A", "heart")>>
        KQs == <<G("K", "spade"), G("Q", "spade")>>
        lo  == <<G("7", "club"), G("2", "diamond")>>
        dup == <<G("A", "spade"), G("A", "spade")>>
        flop == <<G("K", "diamond"), G("9", "diamond"), G("4", "club")>>
        river == flop \o <<G("J", "heart"), G("3", "spade")>>
    IN  {<<AA, <<>>>>, <<KQs, <<>>>>, <<lo, <<>>>>, <<dup, <<>>>>,
         <<AA, flop>>, <<lo, flop>>, <<lo, river>>}

EngineActions ==
    {"check", "bet", "call"}

EnginePots ==
    {0, 60, 80, 250}

EngineBets ==
    {0, 20, 50}

EngineStages ==
    StageNames \cup {"Showdown"}

\* counts of won simulations around every threshold the engine compares to
WinCounts ==
    {0, 400, 401, 700, 701, 750, 751, 800, 801, 1000}

EngineStats ==
    {ZeroStats, [total_bluffs |-> 2, successful_bluffs |-> 1, failed_bluffs |-> 1]}

Strengths ==
    {1, 3000, 5999, 6000, 6001, 7000, 7462}

AggressionLevels ==
    {0, 5, 7, 9, 10, 15}

InitEngine ==
    /\ csv_file \in SampleFiles
    /\ opponent_model = NewOpponentModel(<<>>)
    /\ bluff_stats \in EngineStats
    /\ \/ \E cards \in EngineCards, player_action \in EngineActions,
             pot_size \in EnginePots, stage \in EngineStages,
             last_player_bet \in EngineBets :
               call = [op |-> "make_ai_decision", ai_hand |-> cards[1],
                       community_cards |-> cards[2], player_action |-> player_action,
                       pot_size |-> pot_size, stage |-> stage,
                       last_player_bet |-> last_player_bet]
       \/ \E ai_hand_strength \in Strengths, pot_size \in EnginePots,
             stage \in EngineStages, aggression_level \in AggressionLevels :
               call = [op |-> "should_bluff", ai_hand_strength |-> ai_hand_strength,
                       pot_size |-> pot_size, stage |-> stage,
                       aggression_level |-> aggression_level]
    /\ ret = NoCall
    /\ game = NoGame
    /\ mc = NoMc

\* make_ai_decision returns d; the draws it did not make are recorded as -1
Returned(d, u_pre, wins, coin, u_bluff) ==
    /\ ret' = [op |-> "make_ai_decision",
               value |-> <<d.decision.action, d.decision.amount>>,
               playstyle |-> d.playstyle,
               win_rate_threshold |-> d.win_rate_threshold,
               bluff_aggression |-> d.bluff_aggression,
               u_pre |-> u_pre, wins |-> wins, coin |-> coin, u_bluff |-> u_bluff]
    /\ bluff_stats' = d.decision.stats
    /\ csv_file' = InitializeCsv(csv_file)

MakeAiDecisionReturn(u_pre, wins, coin, u_bluff) ==
    Returned(make_ai_decision(csv_file, bluff_stats, call.ai_hand, call.community_cards,
                              call.player_action, call.pot_size, call.stage,
                              call.last_player_bet, u_pre, wins, coin, u_bluff),
             u_pre, wins, coin, u_bluff)

MakeAiDecisionCall ==
    /\ call.op = "make_ai_decision"
    /\ ret = NoCall
    /\ ~(\E i \in DOMAIN call.ai_hand : ConvertCardStrRaises(call.ai_hand[i]))
    /\ ~(\E i \in DOMAIN call.community_cards :
            ConvertCardStrRaises(call.community_cards[i]))
    /\ IF Len(call.community_cards) < 3
       THEN IF call.player_action = "check"
            THEN \E u_pre \in Draws : MakeAiDecisionReturn(u_pre, -1, -1, -1)
            ELSE MakeAiDecisionReturn(-1, -1, -1, -1)
       ELSE \E wins \in WinCounts :
              LET above == WinRateAbove(wins, win_rate_threshold(FreshPlaystyle(csv_file)))
                  mid == WinRateAbove(wins, 400)
              IN  IF above \/ call.player_action \notin {"check", "bet"}
                  THEN MakeAiDecisionReturn(-1, wins, -1, -1)
                  ELSE IF call.player_action = "check" /\ mid
                  THEN \E coin \in {0, 1} : MakeAiDecisionReturn(-1, wins, coin, -1)
                  ELSE \E u_bluff \in Draws : MakeAiDecisionReturn(-1, wins, -1, u_bluff)
    /\ UNCHANGED <<opponent_model, call, game, mc>>

ShouldBluffCall ==
    /\ call.op = "should_bluff"
    /\ ret = NoCall
    /\ \E U \in Draws :
         ret' = [op |-> "should_bluff", U |-> U,
                 value |-> should_bluff(csv_file, call.ai_hand_strength, call.pot_size,
                                        call.stage, call.aggression_level, U)]
    /\ csv_file' = InitializeCsv(csv_file)
    /\ UNCHANGED <<opponent_model, bluff_stats, call, game, mc>>

NextEngine ==
    \/ MakeAiDecisionCall
    \/ ShouldBluffCall

SpecEngine ==
    InitEngine /\ [][NextEngine]_vars

\* The call that returned was make_ai_decision, before or after the flop.
DecidedPreFlop ==
    /\ ret.op = "make_ai_decision"
    /\ Len(call.community_cards) < 3

DecidedPostFlop ==
    /\ ret.op = "make_ai_decision"
    /\ Len(call.community_cards) >= 3

\* C2: post-flop (a board of 3 or more cards), whenever the estimated win
\* rate is strictly greater than the playstyle-adjusted threshold,
\* make_ai_decision returns ('check', 0) on an observed check and ('call', 0)
\* on an observed bet, for every pot size, stage, last bet and random draw,
\* and leaves the bluff counters as they were.
C2_StrongHandChecksOrCalls ==
    [][(DecidedPostFlop' /\ ret'.wins * 1000 > ret'.win_rate_threshold * num_simulations)
        => /\ call.player_action = "check" => ret'.value = <<"check", 0>>
           /\ call.player_action = "bet" => ret'.value = <<"call", 0>>
           /\ bluff_stats' = bluff_stats]_vars

C2_Witness ==
    /\ DecidedPostFlop
    /\ ret.wins * 1000 > ret.win_rate_threshold * num_simulations
    /\ ret.wins < 800
    /\ call.player_action = "bet"
    /\ call.pot_size = 250
    /\ ret.value = <<"call", 0>>

\* C3: pre-flop (a board of fewer than 3 cards), on an observed check
\* make_ai_decision returns ('bet', 20) and adds one to total_bluffs and to
\* successful_bluffs when the draw is below 0.3 or the pre-flop score is
\* above 60, and otherwise returns ('check', 0) with the counters unchanged;
\* on any other observed action it returns ('fold', 0) exactly when the
\* predicted playstyle is 'aggressive' and the score is below 50, and
\* ('call', 0) otherwise.
C3_PreFlopDecision ==
    [][DecidedPreFlop' =>
        IF call.player_action = "check"
        THEN IF \/ 10 * ret'.u_pre < 3 * DrawGrid
                \/ estimate_preflop_strength(call.ai_hand) > 60
             THEN /\ ret'.value = <<"bet", 20>>
                  /\ bluff_stats' =
                        [bluff_stats EXCEPT !.total_bluffs = @ + 1,
                                            !.successful_bluffs = @ + 1]
             ELSE /\ ret'.value = <<"check", 0>>
                  /\ bluff_stats' = bluff_stats
        ELSE IF /\ ret'.playstyle = "aggressive"
                /\ estimate_preflop_strength(call.ai_hand) < 50
             THEN ret'.value = <<"fold", 0>>
             ELSE ret'.value = <<"call", 0>>]_vars

\* a check answered by a bet that only the score explains (the draw failed),
\* with both counters one higher than before the call
C3_Witness ==
    /\ DecidedPreFlop
    /\ call.player_action = "check"
    /\ 10 * ret.u_pre >= 3 * DrawGrid
    /\ ret.value = <<"bet", 20>>
    /\ bluff_stats.total_bluffs = 3
    /\ bluff_stats.successful_bluffs = 2

\* the stage factor as the claim lists it, in tenths
ClaimedStageFactor(stage) ==
    CASE stage = "Pre-Flop" -> 2
      [] stage = "Flop" -> 3
      [] stage = "Turn" -> 4
      [] stage = "River" -> 5
      [] OTHER -> 3

\* C4: for every strength, pot size, stage, aggression level and draw u,
\* should_bluff returns true exactly when strength > 6000 and
\* u < aggression_level * (min(pot_size / 100, 1) + stageFactor), the product
\* not being clamped; so it is false for every strength <= 6000 and true for
\* a weak hand with pot 80, stage Turn and aggression 0.9.
C4_ShouldBluffFormula ==
    ret.op = "should_bluff" =>
        /\ ret.value <=>
             /\ call.ai_hand_strength > 6000
             /\ ret.U * 1000 <
                  DrawGrid * call.aggression_level
                    * (Min2(call.pot_size, 100) + 10 * ClaimedStageFactor(call.stage))
        /\ call.ai_hand_strength <= 6000 => ~ret.value
        /\ (/\ call.ai_hand_strength > 6000
            /\ call.pot_size = 80
            /\ call.stage = "Turn"
            /\ call.aggression_level = 9) => ret.value

\* the largest draw, with a history in the csv file, on the example of the claim
C4_Witness ==
    /\ ret.op = "should_bluff"
    /\ csv_file = CallingRows
    /\ call.ai_hand_strength = 7000
    /\ call.pot_size = 80
    /\ call.stage = "Turn"
    /\ call.aggression_level = 9
    /\ ret.U = DrawGrid - 1
    /\ ret.value

\* some card occurs twice in the list
RepeatsCard(cards) ==
    \E i, j \in DOMAIN cards : i < j /\ cards[i] = cards[j]

\* C13: make_ai_decision, given a hand and a board in which the same card
\* occurs twice, fails with an error: it never returns a decision for such
\* an input.
C13_DuplicateCardsRejected ==
    ~(/\ ret.op = "make_ai_decision"
      /\ RepeatsCard(call.ai_hand \o call.community_cards)
      /\ ret.value[1] \in {"check", "bet", "call", "fold", "raise"})

(***************************************************************************)
(* SpecModel: one OpponentModel, built on an empty csv file, and any       *)
(* sequence of update_opponent_data, compute_features and                  *)
(* _heuristic_playstyle calls on it, with the sample observations below.   *)
(***************************************************************************)
\* the most records the model is given
MaxRows ==
    3

\* hands and boards in the text _convert_card_to_deuces reads (suit first):
\* nine-four and king-four (nothing and a pair on the board), a pair of kings
SfBoard ==
    <<S("spade", "K"), S("diamond", "7"), S("club", "2"), S("spade", "3"), S("heart", "J")>>

SfNothing ==
    <<S("club", "9"), S("heart", "4")>>

SfPair ==
    <<S("club", "K"), S("heart", "4")>>

SfTrips ==
    <<S("club", "K"), S("heart", "K")>>

\* the same nine-four and board in the text the game loop writes (rank first)
GameBoard ==
    <<G("K", "spade"), G("7", "diamond"), G("2", "club"), G("3", "spade"), G("J", "heart")>>

GameHand ==
    <<G("9", "club"), G("4", "heart")>>

Obs(player_hand, community_cards, stage, player_action, player_bet, pot_size, player_id) ==
    [player_hand |-> player_hand, community_cards |-> community_cards, stage |-> stage,
     player_action |-> player_action, player_bet |-> player_bet, pot_size |-> pot_size,
     player_id |-> player_id]

\* the arguments update_opponent_data is called with
Observations ==
    {Obs(GameHand, Prefix(GameBoard, 3), "Flop", "bet", 20, 40, 1),
     Obs(GameHand, Prefix(GameBoard, 4), "Turn", "call", 30, 20, 1),
     Obs(GameHand, GameBoard, "River", "fold", 0, 60, 1),
     Obs(SfNothing, SfBoard, "River", "bet", 20, 40, 1),
     Obs(SfNothing, SfBoard, "River", "check", 0, 40, 1),
     Obs(SfPair, SfBoard, "River", "call", 10, 30, 1),
     Obs(SfTrips, SfBoard, "River", "raise", 50, 100, 1),
     Obs(SfNothing, SfBoard, "Pre-Flop", "raise", 10, 0, 1),
     Obs(<<>>, <<>>, "Flop", "", 0, 10, 1),
     Obs(SfTrips, Prefix(SfBoard, 4), "Turn", "fold", 0, 40, 2),
     Obs(GameHand, Prefix(GameBoard, 3), "Flop", "call", 20, 40, 2)}

\* new_row of each call
ObservedRow ==
    [o \in Observations |->
        NewRow(o.player_hand, o.community_cards, o.stage, o.player_action,
               o.player_bet, o.pot_size, o.player_id)]

InitModel ==
    /\ csv_file = <<>>
    /\ opponent_model = NewOpponentModel(csv_file)
    /\ bluff_stats = ZeroStats
    /\ call = NoCall
    /\ ret = NoCall
    /\ game = NoGame
    /\ mc = NoMc

UpdateOpponentDataCall ==
    /\ Len(opponent_model.data) < MaxRows
    /\ \E o \in Observations :
         /\ call' = [op |-> "update_opponent_data", args |-> o]
         /\ opponent_model' = update_opponent_data(opponent_model, ObservedRow[o])
         /\ csv_file' = Append(csv_file, ToCsvRow(ObservedRow[o]))
    /\ ret' = [op |-> "update_opponent_data"]
    /\ UNCHANGED <<bluff_stats, game, mc>>

ComputeFeaturesCall ==
    /\ \E player_id \in PlayerIds :
         /\ call' = [op |-> "compute_features", player_id |-> player_id]
         /\ ret' = [op |-> "compute_features",
                    value |-> compute_features(opponent_model, player_id)]
         /\ opponent_model' = CacheFeatures(opponent_model, player_id)
    /\ UNCHANGED <<csv_file, bluff_stats, game, mc>>

HeuristicPlaystyleCall ==
    /\ \E player_id \in PlayerIds :
         /\ call' = [op |-> "_heuristic_playstyle", player_id |-> player_id]
         /\ ret' = [op |-> "_heuristic_playstyle",
                    value |-> _heuristic_playstyle(opponent_model, player_id)]
         /\ opponent_model' = CacheFeatures(opponent_model, player_id)
    /\ UNCHANGED <<csv_file, bluff_stats, game, mc>>

NextModel ==
    \/ UpdateOpponentDataCall
    \/ ComputeFeaturesCall
    \/ HeuristicPlaystyleCall

SpecModel ==
    InitModel /\ [][NextModel]_vars

\* The step is an update_opponent_data call; the record it appended.
Updated ==
    call.op = "update_opponent_data"

LastRecord ==
    LET hands == opponent_model.opponent_data[call.args.player_id]
    IN  hands[Len(hands)]

\* the sequence after is the sequence before with one element more
AppendsOne(before, after) ==
    /\ Len(after) = Len(before) + 1
    /\ SubSeq(after, 1, Len(before)) = before

\* the fraction frac is n / d
IsRatio(frac, n, d) ==
    frac[1] * d = n * frac[2]

\* C7: each update_opponent_data call appends exactly one record to that
\* player's history and one row to the store, leaving all earlier records
\* unchanged; the new record holds the action and the normalized bet
\* (player_bet / pot_size when pot_size > 0, else 0) only in the slot of the
\* given stage when the stage is Flop, Turn or River, with the other two
\* action slots empty, and holds no action in any slot when the stage is
\* Pre-Flop.
C7_UpdateAppendsOneRecord ==
    [][Updated' =>
        LET o == call'.args
            rec == LastRecord'
            bet == IF o.pot_size > 0 THEN <<o.player_bet, o.pot_size>> ELSE <<0, 1>>
            slots == <<"Flop", "Turn", "River">>
        IN  /\ AppendsOne(opponent_model.opponent_data[o.player_id],
                          opponent_model'.opponent_data[o.player_id])
            /\ \A p \in PlayerIds \ {o.player_id} :
                 opponent_model'.opponent_data[p] = opponent_model.opponent_data[p]
            /\ AppendsOne(opponent_model.data, opponent_model'.data)
            /\ AppendsOne(csv_file, csv_file')
            /\ \A k \in 1..3 :
                 IF o.stage = slots[k]
                 THEN /\ ActionSlots(rec)[k] = o.player_action
                      /\ IsRatio(BetSlots(rec)[k], bet[1], bet[2])
                 ELSE /\ ActionSlots(rec)[k] = ""
                      /\ BetSlots(rec)[k][1] = 0
            /\ o.stage = "Pre-Flop" => ActionSlots(rec) = <<"", "", "">>]_vars

\* a third record for player 1, a Turn call of 30 into a pot of 20, and
\* a Pre-Flop raise recorded before it
C7_Witness ==
    /\ Updated
    /\ call.args.stage = "Turn"
    /\ call.args.player_bet = 30
    /\ call.args.pot_size = 20
    /\ Len(opponent_model.opponent_data[1]) = 3
    /\ opponent_model.opponent_data[1][1].hand = ReplaceComma(Join(SfNothing))
    /\ ActionSlots(opponent_model.opponent_data[1][1]) = <<"", "", "">>
    /\ LastRecord.action_turn = "call"
    /\ LastRecord.bet_size_turn = <<3, 2>>

\* card text of the game loop: a rank character followed by a suit symbol
IsGameCard(card) ==
    /\ Len(card) = 2
    /\ card[1] \in SeqToSet(ranks)
    /\ card[2] \in SeqToSet(suits)

\* C8: when update_opponent_data is called with a 2-card hand and a board of
\* 3, 4 or 5 cards in the card encoding the game loop produces (rank
\* character followed by suit symbol), the appended record carries a
\* non-empty strength category for every completed street length: result1
\* for a board of at least 3 cards, result2 for at least 4, result3 for 5; a
\* street not yet reached carries the empty marker.
C8_GameCardsGetCategories ==
    (/\ Updated
     /\ Len(call.args.player_hand) = 2
     /\ Len(call.args.community_cards) \in 3..5
     /\ \A i \in 1..2 : IsGameCard(call.args.player_hand[i])
     /\ \A i \in DOMAIN call.args.community_cards :
          IsGameCard(call.args.community_cards[i]))
    => /\ LastRecord.result1 # ""
       /\ LastRecord.result2 # "" <=> Len(call.args.community_cards) >= 4
       /\ LastRecord.result3 # "" <=> Len(call.args.community_cards) = 5

\* the number of the records hands that hold the action
RecordsWith(hands, action) ==
    Cardinality({i \in DOMAIN hands :
        \E k \in 1..3 : ActionSlots(hands[i])[k] = action})

\* the fraction lies in [0, 1]
InUnit(frac) ==
    /\ frac[2] > 0
    /\ 0 <= frac[1]
    /\ frac[1] <= frac[2]

ComputedFeatures ==
    ret.op = "compute_features"

\* C9: after any sequence of update_opponent_data calls, compute_features for
\* a player with at least one record returns raise_freq, call_freq,
\* fold_freq, weak_hand_river_freq and weak_hand_aggressiveness each in
\* [0, 1], where each action frequency is the number of that player's records
\* with that action divided by the total number of that player's records
\* (Pre-Flop records included in the total); for a player with no record it
\* returns no feature vector.
C9_FrequenciesInUnit ==
    ComputedFeatures =>
        LET hands == opponent_model.opponent_data[call.player_id]
            f == ret.value
        IN  IF Len(hands) = 0 THEN f = None
            ELSE /\ f # None
                 /\ InUnit(f.raise_freq)
                 /\ InUnit(f.call_freq)
                 /\ InUnit(f.fold_freq)
                 /\ InUnit(f.weak_hand_river_freq)
                 /\ InUnit(f.weak_hand_aggressiveness)
                 /\ IsRatio(f.raise_freq, RecordsWith(hands, "raise"), Len(hands))
                 /\ IsRatio(f.call_freq, RecordsWith(hands, "call"), Len(hands))
                 /\ IsRatio(f.fold_freq, RecordsWith(hands, "fold"), Len(hands))

\* three records of player 1, one of them Pre-Flop, one fold: fold_freq is
\* 1/3, and the average bet is above 1
C9_Witness ==
    /\ ComputedFeatures
    /\ call.player_id = 1
    /\ Len(opponent_model.opponent_data[1]) = 3
    /\ \E i \in 1..3 : /\ opponent_model.opponent_data[1][i].river # <<>>
                       /\ ActionSlots(opponent_model.opponent_data[1][i]) = <<"", "", "">>
    /\ ret.value.fold_freq = <<1, 3>>
    /\ ret.value.call_freq = <<1, 3>>
    /\ FracGt(ret.value.avg_bet_size, <<1, 1>>)

ClassifiedByHeuristic ==
    ret.op = "_heuristic_playstyle"

\* the fraction is above tenths / 10
Above(frac, tenths) ==
    frac[1] * 10 > tenths * frac[2]

\* C10: _heuristic_playstyle applies its rules in strict order and the first
\* match wins: raise_freq > 0.3 or weak_hand_aggressiveness > 0.5 gives
\* 'aggressive' whatever the other features are; otherwise fold_freq > 0.6
\* gives 'tight'; otherwise call_freq > 0.5 gives 'passive'; otherwise
\* weak_hand_river_freq > 0.5 gives 'loose'; otherwise 'unknown'; a player
\* with no records gives 'unknown'.
C10_HeuristicRuleOrder ==
    ClassifiedByHeuristic =>
        LET hands == opponent_model.opponent_data[call.player_id]
            f == opponent_model.opponent_features[call.player_id]
        IN  IF Len(hands) = 0 THEN ret.value = "unknown"
            ELSE ret.value =
                   IF Above(f.raise_freq, 3) \/ Above(f.weak_hand_aggressiveness, 5)
                   THEN "aggressive"
                   ELSE IF Above(f.fold_freq, 6) THEN "tight"
                   ELSE IF Above(f.call_freq, 5) THEN "passive"
                   ELSE IF Above(f.weak_hand_river_freq, 5) THEN "loose"
                   ELSE "unknown"

\* the first rule wins over the second: two folds in three records, and the
\* one weak hand seen at the river was bet
C10_Witness ==
    /\ ClassifiedByHeuristic
    /\ call.player_id = 1
    /\ Len(opponent_model.opponent_data[1]) = 3
    /\ opponent_model.opponent_features[1].fold_freq = <<2, 3>>
    /\ opponent_model.opponent_features[1].raise_freq = <<0, 1>>
    /\ opponent_model.opponent_features[1].weak_hand_aggressiveness = <<1, 1>>
    /\ ret.value = "aggressive"

(***************************************************************************)
(* SpecMC: one monte_carlo_win_rate call, statement by statement.  The     *)
(* shuffles make every draw a choice of any card left in deck.cards, which *)
(* is kept as the number of copies of each card.  The deck is cut to       *)
(* DeckSize cards so that every order of draws can be followed.            *)
(***************************************************************************)
\* the number of cards of Deck()
DeckSize ==
    9

\* the largest num_simulations a call is given
MaxSimulations ==
    2

\* deuces Deck.GetFullDeck: the ranks from '2' up, each in the suits s h d c
FullDeck ==
    [i \in 1..52 |-> <<(i - 1) \div 4, <<"s", "h", "d", "c">>[((i - 1) % 4) + 1]>>]

DeckCards ==
    {FullDeck[i] : i \in 1..DeckSize}

RECURSIVE SetToSeq(_)
SetToSeq(set) ==
    IF set = {} THEN <<>>
    ELSE LET c == CHOOSE c \in set : TRUE
         IN  <<c>> \o SetToSeq(set \ {c})

\* evaluator.evaluate(board, hand) for every 2-card hand and 5-card board of
\* distinct cards of the deck, tabulated once
RECURSIVE BoardScores(_, _)
BoardScores(hand, boards) ==
    IF boards = {} THEN <<>>
    ELSE LET board == CHOOSE b \in boards : TRUE
         IN  (board :> EvaluatorEvaluate(SetToSeq(board), SetToSeq(hand)))
             @@ BoardScores(hand, boards \ {board})

RECURSIVE HandScores(_)
HandScores(hands) ==
    IF hands = {} THEN <<>>
    ELSE LET hand == CHOOSE h \in hands : TRUE
         IN  (hand :> BoardScores(hand, {b \in SUBSET (DeckCards \ hand) : Cardinality(b) = 5}))
             @@ HandScores(hands \ {hand})

ScoreTable ==
    HandScores({h \in SUBSET DeckCards : Cardinality(h) = 2})

Score(board, hand) ==
    ScoreTable[SeqToSet(hand)][SeqToSet(board)]

\* lines 102-108: deck.cards after the known cards are removed
RemoveKnown(known) ==
    [c \in DeckCards |-> IF c \in SeqToSet(known) THEN 0 ELSE 1]

\* a variant that counts a tie as a win
WinsAfterTiesCount(wins, ai_score, opp_score) ==
    IF ai_score <= opp_score THEN wins + 1 ELSE wins

\* lines 127-128: wins after one comparison
WinsAfter(wins, ai_score, opp_score) ==
    IF ai_score < opp_score THEN wins + 1 ELSE wins

\* lines 129-130: ties after one comparison
TiesAfter(ties, ai_score, opp_score) ==
    IF ai_score < opp_score THEN ties
    ELSE IF ai_score = opp_score THEN ties + 1 ELSE ties

\* a variant that puts the whole board back
ReturnedCardsWholeBoard(opp_hand, remaining_board, board_converted) ==
    opp_hand \o remaining_board

\* line 133: the cards put back into deck.cards
ReturnedCards(opp_hand, remaining_board, board_converted) ==
    opp_hand \o SelectSeq(remaining_board, LAMBDA c : c \notin SeqToSet(board_converted))

\* deck.cards += list
PutBack(cards, list) ==
    [c \in DOMAIN cards |-> cards[c] + Cardinality({i \in DOMAIN list : list[i] = c})]

\* the calls made: game text of cards of the deck, one board of each length
\* 0 to 5
McCall(ai_hand, board, n) ==
    [pc |-> "call", ai_hand |-> ai_hand, board |-> board, num_simulations |-> n]

McCalls ==
    {McCall(<<G("3", "spade"), G("2", "club")>>, <<>>, 1),
     McCall(<<G("3", "spade"), G("2", "club")>>, <<G("2", "spade")>>, 1),
     McCall(<<G("3", "spade"), G("2", "club")>>, <<G("2", "spade"), G("3", "heart")>>, 1)}
    \cup {McCall(<<G("3", "spade"), G("2", "club")>>,
                 <<G("2", "spade"), G("3", "heart"), G("4", "spade")>>, n) : n \in 1..MaxSimulations}
    \cup {McCall(<<G("2", "heart"), G("3", "diamond")>>,
                 <<G("2", "spade"), G("3", "heart"), G("4", "spade"), G("2", "club")>>, n) : n \in 1..MaxSimulations}
    \cup {McCall(<<G("3", "club"), G("3", "diamond")>>,
                 <<G("2", "spade"), G("3", "heart"), G("4", "spade"), G("2", "club"), G("2", "diamond")>>, n) : n \in 1..MaxSimulations}

InitMC ==
    /\ csv_file = <<>>
    /\ opponent_model = NewOpponentModel(csv_file)
    /\ bluff_stats = ZeroStats
    /\ call = NoCall
    /\ ret = NoCall
    /\ game = NoGame
    /\ mc \in McCalls

\* lines 101-112
McBegin ==
    /\ mc.pc = "call"
    /\ mc' = [pc |-> "loop", num_simulations |-> mc.num_simulations,
              ai_converted |-> convert_hand(mc.ai_hand),
              board_converted |-> convert_hand(mc.board),
              cards |-> RemoveKnown(convert_hand(mc.ai_hand) \o convert_hand(mc.board)),
              wins |-> 0, ties |-> 0, i |-> 0,
              opp_hand |-> <<>>, remaining_board |-> <<>>]
    /\ call' = [op |-> "monte_carlo_win_rate", ai_hand |-> mc.ai_hand,
                board |-> mc.board, num_simulations |-> mc.num_simulations]
    /\ UNCHANGED <<csv_file, opponent_model, bluff_stats, ret, game>>

\* lines 114-119: the opponent's two cards, and the board to complete
McDrawOpp ==
    /\ mc.pc = "loop"
    /\ mc.i < mc.num_simulations
    /\ \E c1, c2 \in DeckCards :
         /\ mc.cards[c1] > 0
         /\ [mc.cards EXCEPT ![c1] = @ - 1][c2] > 0
         /\ mc' = [mc EXCEPT !.pc = "board",
                             !.opp_hand = <<c1, c2>>,
                             !.cards = [@ EXCEPT ![c1] = @ - 1, ![c2] = @ - 1],
                             !.remaining_board = mc.board_converted]
    /\ UNCHANGED <<csv_file, opponent_model, bluff_stats, call, ret, game>>

\* lines 119-120: one more card for the board
McDrawBoard ==
    /\ mc.pc = "board"
    /\ Len(mc.remaining_board) < 5
    /\ \E c \in DeckCards :
         /\ mc.cards[c] > 0
         /\ mc' = [mc EXCEPT !.cards[c] = @ - 1,
                             !.remaining_board = Append(@, c)]
    /\ UNCHANGED <<csv_file, opponent_model, bluff_stats, call, ret, game>>

\* lines 122-134: the comparison, and the cards go back; opp_hand and
\* remaining_board are rebound by the next iteration before any use
Compared(ai_score, opp_score) ==
    [mc EXCEPT !.pc = "loop",
               !.wins = WinsAfter(@, ai_score, opp_score),
               !.ties = TiesAfter(@, ai_score, opp_score),
               !.cards = PutBack(@, ReturnedCards(mc.opp_hand, mc.remaining_board,
                                                  mc.board_converted)),
               !.i = @ + 1,
               !.opp_hand = <<>>,
               !.remaining_board = <<>>]

McEvaluate ==
    /\ mc.pc = "board"
    /\ Len(mc.remaining_board) >= 5
    /\ mc' = Compared(Score(mc.remaining_board, mc.ai_converted),
                      Score(mc.remaining_board, mc.opp_hand))
    /\ UNCHANGED <<csv_file, opponent_model, bluff_stats, call, ret, game>>

\* line 136
McReturn ==
    /\ mc.pc = "loop"
    /\ mc.i >= mc.num_simulations
    /\ mc' = [mc EXCEPT !.pc = "done"]
    /\ ret' = [op |-> "monte_carlo_win_rate", value |-> Frac(mc.wins, mc.num_simulations)]
    /\ UNCHANGED <<csv_file, opponent_model, bluff_stats, call, game>>

NextMC ==
    \/ McBegin
    \/ McDrawOpp
    \/ McDrawBoard
    \/ McEvaluate
    \/ McReturn

SpecMC ==
    InitMC /\ [][NextMC]_vars

\* The iteration in hand has drawn all its cards; the call has returned.
BoardCompleted ==
    /\ mc.pc = "board"
    /\ Len(mc.remaining_board) >= 5

McReturned ==
    mc.pc = "done"

\* C5: monte_carlo_win_rate returns wins / num_simulations, where wins counts
\* exactly the iterations in which the acting hand's rank is strictly lower
\* (better) than the sampled opponent's on the same completed 5-card board; an
\* exact tie adds nothing to wins; the result therefore lies in [0, 1].
C5_WinsCountStrictlyBetter ==
    [][/\ (mc.pc = "call" /\ mc'.pc = "loop") => mc'.wins = 0
       /\ (mc.pc \in {"loop", "board"} /\ mc'.pc = "board") => mc'.wins = mc.wins
       /\ (BoardCompleted /\ mc'.pc = "loop") =>
            /\ Len(mc.remaining_board) = 5
            /\ mc'.wins = mc.wins
                 + (IF Score(mc.remaining_board, mc.ai_converted)
                        < Score(mc.remaining_board, mc.opp_hand) THEN 1 ELSE 0)
            /\ Score(mc.remaining_board, mc.ai_converted)
                 = Score(mc.remaining_board, mc.opp_hand) => mc'.wins = mc.wins
       /\ McReturned' =>
            /\ mc'.wins = mc.wins
            /\ IsRatio(ret'.value, mc.wins, mc.num_simulations)
            /\ InUnit(ret'.value)]_vars

\* two iterations, one won and one tied: the call returns 1/2
C5_Witness ==
    /\ McReturned
    /\ mc.num_simulations = 2
    /\ mc.wins = 1
    /\ mc.ties = 1
    /\ ret.value = <<1, 2>>

\* the cards the call was given, and the cards the iteration in hand drew
KnownCards ==
    SeqToSet(mc.ai_converted) \cup SeqToSet(mc.board_converted)

DrawnCards ==
    mc.opp_hand \o SubSeq(mc.remaining_board, Len(mc.board_converted) + 1,
                          Len(mc.remaining_board))

\* C6: at the start of every iteration the sampling pool holds exactly the
\* cards of the deck minus the acting hand and the known board, each once
\* (the pool does not shrink or gain duplicates across iterations); within
\* one iteration the two opponent cards and the cards that complete the board
\* are pairwise distinct and differ from every known card, and the completed
\* board has exactly 5 cards for any known board of 0 to 5 cards.
C6_PoolRestoredEachIteration ==
    /\ mc.pc = "loop" =>
         \A c \in DeckCards : mc.cards[c] = IF c \in KnownCards THEN 0 ELSE 1
    /\ mc.pc = "board" =>
         /\ Len(mc.opp_hand) = 2
         /\ \A i, j \in DOMAIN DrawnCards : i # j => DrawnCards[i] # DrawnCards[j]
         /\ \A i \in DOMAIN DrawnCards :
              DrawnCards[i] \in DeckCards \ KnownCards
         /\ SubSeq(mc.remaining_board, 1, Len(mc.board_converted)) = mc.board_converted
    /\ BoardCompleted => Len(mc.remaining_board) = 5

\* the second iteration of a call with a flop is about to start, the first
\* one having drawn four cards; and the pool is whole
C6_Witness ==
    /\ mc.pc = "loop"
    /\ mc.i = 1
    /\ mc.num_simulations = 2
    /\ Len(mc.board_converted) = 3
    /\ Cardinality({c \in DeckCards : mc.cards[c] = 1}) = DeckSize - 5

(***************************************************************************)
(* Spec: holdem.py, one play_round.  It stops where the code waits for the *)
(* player (player_decision, the call-or-fold prompt) and where it calls    *)
(* make_ai_decision and update_opponent_data.  monte_carlo_win_rate is one *)
(* of WinCounts won simulations; showdown only prints.                     *)
(***************************************************************************)
\* what the player types: an action, a bet amount
PlayerInputs ==
    {"check", "bet", "call", "fold"}

GameBets ==
    {1, 50}

\* shuffle_deck: the deck in two of its orders
Decks ==
    {create_deck, [i \in 1..52 |-> create_deck[((i * 5) % 52) + 1]]}

\* deck.pop(), k times: the k-th card popped, and the deck afterwards
Popped(deck, k) ==
    deck[Len(deck) - k + 1]

AfterPops(deck, k) ==
    SubSeq(deck, 1, Len(deck) - k)

\* play_round, lines 156-164: the locals before the first betting round
Dealt(deck) ==
    [pc |-> "player", stage |-> "Pre-Flop", pot |-> 0,
     player_hand |-> <<Popped(deck, 1), Popped(deck, 2)>>,
     ai_hand |-> <<Popped(deck, 3), Popped(deck, 4)>>,
     deck |-> AfterPops(deck, 4), community_cards |-> <<>>,
     state |-> "", player_action |-> "", player_bet |-> 0,
     ai_action |-> "", ai_amount |-> 0]

Init ==
    /\ \E file \in {<<>>, CallingRows} :
         /\ csv_file = InitializeCsv(file)
         /\ opponent_model = NewOpponentModel(file)
    /\ bluff_stats = ZeroStats
    /\ call = NoCall
    /\ ret = NoCall
    /\ game \in {Dealt(deck) : deck \in Decks}
    /\ mc = NoMc

\* betting_round returns (state, pot, player_action, player_bet)
Returns(state, pot, player_action, player_bet) ==
    [game EXCEPT !.pc = "record", !.state = state, !.pot = pot,
                 !.player_action = player_action, !.player_bet = player_bet]

\* betting_round, lines 52-70: the player's action and bet
PlayerDecision ==
    /\ game.pc = "player"
    /\ \E player_action \in PlayerInputs :
         \E player_bet \in IF player_action = "bet" THEN GameBets ELSE {0} :
           game' = IF player_action = "fold"
                   THEN Returns("fold", game.pot, player_action, player_bet)
                   ELSE [game EXCEPT !.pc = "ai", !.player_action = player_action,
                                     !.player_bet = player_bet,
                                     !.ai_action = "", !.ai_amount = 0]
    /\ call' = NoCall
    /\ ret' = NoCall
    /\ UNCHANGED <<csv_file, opponent_model, bluff_stats, mc>>

\* betting_round, lines 79-125, up to a return or the call-or-fold prompt
AfterAi(ai_action, ai_amount) ==
    LET player_action == game.player_action
        player_bet == game.player_bet
        pot == game.pot
    IN  IF player_action = "check" /\ ai_action = "check"
        THEN Returns("continue", pot, player_action, player_bet)
        ELSE IF player_action = "check" /\ ai_action = "bet"
        THEN [game EXCEPT !.pc = "respond", !.ai_action = ai_action, !.ai_amount = ai_amount]
        ELSE IF ai_action = "fold"
        THEN Returns("win", pot, player_action, player_bet)
        ELSE IF player_action = "bet" /\ ai_action = "call"
        THEN Returns("continue", pot + 2 * player_bet, player_action, player_bet)
        ELSE IF player_action = "bet" /\ ai_action = "raise"
        THEN [game EXCEPT !.pc = "respond", !.ai_action = ai_action, !.ai_amount = ai_amount]
        ELSE IF player_action = "bet" /\ ai_action # "call"
        THEN Returns("win", pot, player_action, player_bet)
        ELSE Returns("continue", pot, player_action, player_bet)

\* betting_round, lines 72-76: the call of make_ai_decision and its result
AiDecided(d) ==
    /\ call' = [op |-> "make_ai_decision", ai_hand |-> game.ai_hand,
                community_cards |-> game.community_cards,
                player_action |-> game.player_action,
                pot_size |-> game.pot + game.player_bet, stage |-> game.stage,
                last_player_bet |-> game.player_bet]
    /\ ret' = [op |-> "make_ai_decision",
               value |-> <<d.decision.action, d.decision.amount>>,
               playstyle |-> d.playstyle,
               win_rate_threshold |-> d.win_rate_threshold,
               bluff_aggression |-> d.bluff_aggression]
    /\ bluff_stats' = d.decision.stats
    /\ csv_file' = InitializeCsv(csv_file)
    /\ game' = AfterAi(d.decision.action, d.decision.amount)

AiDecides(u_pre, wins, coin, u_bluff) ==
    AiDecided(make_ai_decision(csv_file, bluff_stats, game.ai_hand, game.community_cards,
                               game.player_action, game.pot + game.player_bet, game.stage,
                               game.player_bet, u_pre, wins, coin, u_bluff))

AiDecision ==
    /\ game.pc = "ai"
    /\ IF Len(game.community_cards) < 3
       THEN IF game.player_action = "check"
            THEN \E u_pre \in Draws : AiDecides(u_pre, -1, -1, -1)
            ELSE AiDecides(-1, -1, -1, -1)
       ELSE \E wins \in WinCounts :
              IF \/ WinRateAbove(wins, win_rate_threshold(FreshPlaystyle(csv_file)))
                 \/ game.player_action \notin {"check", "bet"}
              THEN AiDecides(-1, wins, -1, -1)
              ELSE IF game.player_action = "check" /\ WinRateAbove(wins, 400)
              THEN \E coin \in {0, 1} : AiDecides(-1, wins, coin, -1)
              ELSE \E u_bluff \in Draws : AiDecides(-1, wins, -1, u_bluff)
    /\ UNCHANGED <<opponent_model, mc>>

\* betting_round, lines 85-93 and 106-116: the player calls or folds
PlayerResponse ==
    /\ game.pc = "respond"
    /\ \E response \in {"call", "fold"} :
         IF response = "call"
         THEN /\ bluff_stats' = [bluff_stats EXCEPT !.failed_bluffs = @ + 1]
              /\ game' = IF game.player_action = "check"
                         THEN Returns("continue", game.pot + game.ai_amount * 2,
                                      "call", game.ai_amount)
                         ELSE Returns("continue",
                                      game.pot + game.player_bet
                                        + (game.ai_amount - game.player_bet) + game.ai_amount,
                                      "call", game.ai_amount - game.player_bet)
         ELSE /\ bluff_stats' = IF game.player_action = "check" THEN bluff_stats
                                ELSE [bluff_stats EXCEPT !.successful_bluffs = @ + 1]
              /\ game' = Returns("fold", game.pot, "fold", 0)
    /\ UNCHANGED <<csv_file, opponent_model, call, ret, mc>>

\* a variant that deals the river right after the flop betting
NextStreetSkipsTurn(g) ==
    CASE g.stage = "Pre-Flop" ->
           [g EXCEPT !.pc = "player", !.stage = "Flop",
                     !.community_cards = <<Popped(g.deck, 2), Popped(g.deck, 3), Popped(g.deck, 4)>>,
                     !.deck = AfterPops(g.deck, 4)]
      [] g.stage = "Flop" ->
           [g EXCEPT !.pc = "player", !.stage = "River",
                     !.community_cards = @ \o <<Popped(g.deck, 2), Popped(g.deck, 4)>>,
                     !.deck = AfterPops(g.deck, 4)]
      [] OTHER -> [g EXCEPT !.pc = "over"]

\* play_round, lines 168-191: the next street is dealt
NextStreet(g) ==
    CASE g.stage = "Pre-Flop" ->
           [g EXCEPT !.pc = "player", !.stage = "Flop",
                     !.community_cards = <<Popped(g.deck, 2), Popped(g.deck, 3), Popped(g.deck, 4)>>,
                     !.deck = AfterPops(g.deck, 4)]
      [] g.stage = "Flop" ->
           [g EXCEPT !.pc = "player", !.stage = "Turn",
                     !.community_cards = Append(@, Popped(g.deck, 2)),
                     !.deck = AfterPops(g.deck, 2)]
      [] g.stage = "Turn" ->
           [g EXCEPT !.pc = "player", !.stage = "River",
                     !.community_cards = Append(@, Popped(g.deck, 2)),
                     !.deck = AfterPops(g.deck, 2)]
      [] OTHER -> [g EXCEPT !.pc = "over"]

\* new_row of the update_opponent_data call that follows a betting round
StageRow ==
    NewRow(game.player_hand, game.community_cards, game.stage, game.player_action,
           game.player_bet, game.pot, 1)

\* play_round, lines 167-201: the stage is recorded; the round goes on or ends
RecordStage ==
    /\ game.pc = "record"
    /\ opponent_model' = update_opponent_data(opponent_model, StageRow)
    /\ csv_file' = Append(csv_file, ToCsvRow(StageRow))
    /\ game' = IF game.state # "continue" THEN [game EXCEPT !.pc = "over"]
               ELSE NextStreet(game)
    /\ UNCHANGED <<bluff_stats, call, ret, mc>>

Next ==
    \/ PlayerDecision
    \/ AiDecision
    \/ PlayerResponse
    \/ RecordStage

Spec ==
    Init /\ [][Next]_vars

\* make_ai_decision has returned in the betting round in hand; the stage is
\* not recorded yet, so opponent_model holds the history the call could see
AiHasDecided ==
    /\ ret.op = "make_ai_decision"
    /\ game.pc \in {"respond", "record"}

\* <<win-rate threshold in thousandths, bluff aggression in tenths>> the
\* claim lists for a label
ClaimedAdjustment(style) ==
    CASE style \in {"aggressive", "loose"} -> <<800, 7>>
      [] style \in {"passive", "tight"} -> <<700, 10>>
      [] OTHER -> <<750, 9>>

\* C1: make_ai_decision adapts to the opponent's observed behaviour: once
\* update_opponent_data has recorded, earlier in the session, a history for
\* the opponent (player id 1) that the profile classifies as aggressive or
\* loose, the next make_ai_decision uses win-rate threshold 0.8 and bluff
\* aggression 0.7; a history classified passive or tight gives 0.7 and 1.0;
\* only a history classified unknown leaves the defaults 0.75 and 0.9.
C1_DecisionAdaptsToHistory ==
    AiHasDecided =>
        \A style \in predict_playstyle(opponent_model, 1) :
            <<ret.win_rate_threshold, ret.bluff_aggression>> = ClaimedAdjustment(style)

\* C14: in every state of play_round the bluff counters count each recorded
\* bluff attempt at most once: failed_bluffs <= total_bluffs and
\* successful_bluffs + failed_bluffs <= total_bluffs.
C14_BluffCountersBounded ==
    /\ bluff_stats.failed_bluffs <= bluff_stats.total_bluffs
    /\ bluff_stats.successful_bluffs + bluff_stats.failed_bluffs
           <= bluff_stats.total_bluffs

\* the betting rounds in the order the claim gives
StageOrder ==
    <<"Pre-Flop", "Flop", "Turn", "River">>

StageIndex(stage) ==
    CHOOSE i \in 1..4 : StageOrder[i] = stage

\* the observations play_round has recorded: one for each betting round
\* played so far, the i-th with the board of the i-th stage
OneRecordPerStage ==
    LET recs == opponent_model.opponent_data[1]
        played == IF game.pc = "over" THEN StageIndex(game.stage)
                  ELSE StageIndex(game.stage) - 1
    IN  /\ Len(recs) = played
        /\ \A i \in DOMAIN recs :
              /\ (recs[i].flop = <<>>) = (i < 2)
              /\ (recs[i].turn = <<>>) = (i < 3)
              /\ (recs[i].river = <<>>) = (i < 4)

\* C16: play_round plays Pre-Flop, Flop, Turn, River in this order with no
\* stage skipped or repeated; every betting round played, one ended by a fold
\* or a win included, is followed by exactly one update_opponent_data record
\* for its stage before the next stage starts or the hand ends; the next
\* stage starts, and the showdown is reached, only after a betting round
\* that returned 'continue'.
C16_StagesInOrder ==
    [][/\ OneRecordPerStage
       /\ OneRecordPerStage'
       /\ game'.stage # game.stage
            => /\ StageIndex(game'.stage) = StageIndex(game.stage) + 1
               /\ game.pc = "record"
               /\ game.state = "continue"
               /\ game'.pc = "player"
       /\ (game'.pc = "over" /\ game.pc # "over")
            => /\ game.pc = "record"
               /\ game'.stage = game.stage
               /\ game.state = "continue" => game.stage = "River"
       /\ game'.pc = "record"
            => /\ game'.stage = game.stage
               /\ game.pc # "record"
       /\ opponent_model'.opponent_data # opponent_model.opponent_data
            => game.pc = "record"]_vars

\* the showdown was reached after four betting rounds and four records
C16_Witness ==
    /\ game.pc = "over"
    /\ game.stage = "River"
    /\ game.state = "continue"
    /\ Len(opponent_model.opponent_data[1]) = 4

\* max(int(1.5 x bet), int(0.1 x pot), 10), as the claim gives it
ClaimedRaise(bet, pot) ==
    LET x == (15 * bet) \div 10
        y == pot \div 10
    IN  IF x >= y /\ x >= 10 THEN x ELSE IF y >= 10 THEN y ELSE 10

\* C17: whenever make_ai_decision returns ('raise', a) it answers a 'bet' on
\* a board of three cards or more, with a = max(int(1.5 x last_player_bet),
\* int(0.1 x pot_size), 10), so a >= 10 and a >= last_player_bet; the call
\* amount a - player_bet that betting_round charges a player who calls the
\* raise is never negative, and no step of play_round makes the pot smaller.
C17_RaiseAmount ==
    [][/\ (ret'.op = "make_ai_decision" /\ ret'.value[1] = "raise")
            => /\ call'.player_action = "bet"
               /\ Len(call'.community_cards) >= 3
               /\ ret'.value[2] = ClaimedRaise(call'.last_player_bet, call'.pot_size)
               /\ ret'.value[2] >= 10
               /\ ret'.value[2] >= call'.last_player_bet
       /\ (/\ game.pc = "respond"
           /\ game.ai_action = "raise"
           /\ game'.player_action = "call")
            => /\ game'.player_bet = game.ai_amount - game.player_bet
               /\ game'.player_bet >= 0
               /\ game'.pot = game.pot + 2 * game.ai_amount
       /\ game'.pot >= game.pot]_vars

\* the player called a raise whose amount was a tenth of the pot, above
\* both 1.5 times the bet and 10
C17_Witness ==
    /\ ret.op = "make_ai_decision"
    /\ ret.value[1] = "raise"
    /\ ret.value[2] = call.pot_size \div 10
    /\ ret.value[2] > 10
    /\ ret.value[2] > 2 * call.last_player_bet
    /\ game.pc = "record"
    /\ game.player_action = "call"
    /\ game.player_bet = ret.value[2] - call.last_player_bet

(***************************************************************************)
(* SpecPreflop: estimate_preflop_strength on every pair of cards of the    *)
(* deck, the same card twice included, and the pre-flop branch of          *)
(* make_ai_decision on every such hand.                                    *)
(***************************************************************************)
\* every list of two cards of create_deck
PreflopHands ==
    {<<create_deck[i], create_deck[j]>> : i, j \in 1..52}

InitPreflop ==
    /\ csv_file = <<>>
    /\ opponent_model = NewOpponentModel(<<>>)
    /\ bluff_stats = ZeroStats
    /\ \/ \E hand \in PreflopHands :
            call = [op |-> "estimate_preflop_strength", hand |-> hand]
       \/ \E hand \in PreflopHands, player_action \in {"check", "bet"} :
            call = [op |-> "make_ai_decision", ai_hand |-> hand,
                    community_cards |-> <<>>, player_action |-> player_action,
                    pot_size |-> 0, stage |-> "Pre-Flop", last_player_bet |-> 0]
    /\ ret = NoCall
    /\ game = NoGame
    /\ mc = NoMc

EstimatePreflopStrengthCall ==
    /\ call.op = "estimate_preflop_strength"
    /\ ret = NoCall
    /\ ret' = [op |-> "estimate_preflop_strength",
               value |-> estimate_preflop_strength(call.hand)]
    /\ UNCHANGED <<csv_file, opponent_model, bluff_stats, call, game, mc>>

NextPreflop ==
    \/ EstimatePreflopStrengthCall
    \/ MakeAiDecisionCall

SpecPreflop ==
    InitPreflop /\ [][NextPreflop]_vars

\* the value of a rank on the 2..14 scale
RankValue(card) ==
    CASE card[1] = "T" -> 10
      [] card[1] = "J" -> 11
      [] card[1] = "Q" -> 12
      [] card[1] = "K" -> 13
      [] card[1] = "A" -> 14
      [] OTHER -> CHOOSE v \in 2..9 : <<"2", "3", "4", "5", "6", "7", "8", "9">>[v - 1] = card[1]

\* the sum the claims give: twice the higher rank value, 30 for equal ranks,
\* 10 for equal suits, 5 for rank values one apart
ClaimedStrength(hand) ==
    LET hi == IF RankValue(hand[1]) >= RankValue(hand[2])
              THEN RankValue(hand[1]) ELSE RankValue(hand[2])
        lo == RankValue(hand[1]) + RankValue(hand[2]) - hi
    IN  2 * hi
        + (IF hand[1][1] = hand[2][1] THEN 30 ELSE 0)
        + (IF hand[1][2] = hand[2][2] THEN 10 ELSE 0)
        + (IF hi - lo = 1 THEN 5 ELSE 0)

Estimated ==
    ret.op = "estimate_preflop_strength"

\* C15: for every 2-card hand estimate_preflop_strength returns the smaller
\* of 100 and (2 x the higher rank value + 30 if the ranks are equal + 10 if
\* the suits are equal + 5 if the rank values differ by one), an integer of
\* 0..100; for the ace of spades with the ace of hearts it returns 58.
C15_PreflopStrengthFormula ==
    Estimated =>
        /\ ret.value = (IF ClaimedStrength(call.hand) < 100
                        THEN ClaimedStrength(call.hand) ELSE 100)
        /\ ret.value \in 0..100
        /\ call.hand = <<G("A", "spade"), G("A", "heart")>> => ret.value = 58

\* the strength of a suited hand of adjacent ranks was estimated
C15_Witness ==
    /\ Estimated
    /\ call.hand = <<G("K", "heart"), G("Q", "heart")>>
    /\ ret.value = 41

\* the hand is two different cards
DistinctCards(hand) ==
    hand[1] # hand[2]

\* C18: for every hand of two distinct cards estimate_preflop_strength
\* returns at most 58, the unclamped sum, and the pre-flop branch of
\* make_ai_decision answers a check with ('bet', 20) exactly when its random
\* draw is below 0.3, and with ('check', 0) otherwise.
C18_DistinctHandsNeverAbove60 ==
    /\ (Estimated /\ DistinctCards(call.hand))
          => /\ ret.value <= 58
             /\ ret.value = ClaimedStrength(call.hand)
    /\ (/\ DecidedPreFlop
        /\ DistinctCards(call.ai_hand)
        /\ call.player_action = "check")
          => IF 10 * ret.u_pre < 3 * DrawGrid
             THEN ret.value = <<"bet", 20>>
             ELSE ret.value = <<"check", 0>>

\* a pair of aces, the strongest hand of distinct cards, answered a check
\* with a check because the draw was not below 0.3
C18_Witness ==
    /\ DecidedPreFlop
    /\ call.ai_hand = <<G("A", "spade"), G("A", "heart")>>
    /\ call.player_action = "check"
    /\ 10 * ret.u_pre >= 3 * DrawGrid
    /\ ret.value = <<"check", 0>>

(***************************************************************************)
(* SpecProfile: one OpponentModel with a short or a long history, and any  *)
(* sequence of update_opponent_data, label_opponent, train_model and       *)
(* predict_playstyle calls on it.  The long history ends two records below *)
(* min_hands_for_ml, so that the calls cross it.                           *)
(***************************************************************************)
\* the rows of data that carry a label
LabeledRows(om) ==
    {i \in DOMAIN om.data : om.data[i].playstyle_label # NA}

\* train_model(): the value returned and the model afterwards; fit is given
\* one feature vector for each labelled player who has records in memory
train_model(om) ==
    LET players == {om.data[i].player_id : i \in LabeledRows(om)}
        with_features == {p \in players : compute_features(om, p) # None}
    IN  IF Cardinality(LabeledRows(om)) < 10 \/ with_features = {}
        THEN [value |-> FALSE, om |-> om]
        ELSE [value |-> TRUE,
              om |-> [om EXCEPT !.fitted = TRUE,
                                !.opponent_features =
                                    [p \in PlayerIds |->
                                        IF p \in with_features
                                        THEN compute_features(om, p) ELSE @[p]]]]

\* label_opponent(player_id, playstyle) raises ValueError
LabelOpponentRaises(playstyle) ==
    playstyle \notin playstyle_labels

\* a variant that labels every row, whoever the player is
label_opponent_all(om, player_id, playstyle) ==
    [om EXCEPT !.data = [i \in DOMAIN @ |-> [@[i] EXCEPT !.playstyle_label = playstyle]]]

\* label_opponent(player_id, playstyle), line 289: the model afterwards
label_opponent(om, player_id, playstyle) ==
    [om EXCEPT !.data = [i \in DOMAIN @ |->
                            IF @[i].player_id = player_id
                            THEN [@[i] EXCEPT !.playstyle_label = playstyle]
                            ELSE @[i]]]

\* DataFrame.to_csv of the whole data
WriteCsv(data) ==
    [i \in DOMAIN data |-> ToCsvRow(data[i])]

\* the observations of this specification, all by player 1: a call, and a
\* River bet with nothing
ProfileCalls ==
    <<Obs(GameHand, Prefix(GameBoard, 4), "Turn", "call", 30, 20, 1),
      Obs(SfNothing, SfBoard, "River", "bet", 20, 40, 1)>>

\* a model that has seen one fold of player 2
ShortHistory ==
    update_opponent_data(NewOpponentModel(<<>>),
                         ObservedRow[Obs(SfTrips, Prefix(SfBoard, 4), "Turn", "fold", 0, 40, 2)])

\* the model after n records of player 1: River folds and calls by turns
RECURSIVE Observed(_)
Observed(n) ==
    IF n = 0 THEN NewOpponentModel(<<>>)
    ELSE update_opponent_data(Observed(n - 1),
            ObservedRow[IF n % 2 = 0 THEN ProfileCalls[1]
                        ELSE Obs(GameHand, GameBoard, "River", "fold", 0, 60, 1)])

\* one record below min_hands_for_ml
LongHistory ==
    Observed(min_hands_for_ml - 1)

\* what label_opponent is given as playstyle
LabelInputs ==
    playstyle_labels \cup {"unknown"}

InitProfile ==
    /\ opponent_model \in {ShortHistory, LongHistory}
    /\ csv_file = WriteCsv(opponent_model.data)
    /\ bluff_stats = ZeroStats
    /\ call = NoCall
    /\ ret = NoCall
    /\ game = NoGame
    /\ mc = NoMc

ObserveCall ==
    /\ \/ Len(opponent_model.data) < MaxRows
       \/ /\ Len(opponent_model.data) >= Len(LongHistory.data)
          /\ Len(opponent_model.data) <= min_hands_for_ml
    /\ \E k \in 1..2 :
         /\ call' = [op |-> "update_opponent_data", args |-> ProfileCalls[k]]
         /\ opponent_model' = update_opponent_data(opponent_model, ObservedRow[ProfileCalls[k]])
         /\ csv_file' = Append(csv_file, ToCsvRow(ObservedRow[ProfileCalls[k]]))
    /\ ret' = [op |-> "update_opponent_data"]
    /\ UNCHANGED <<bluff_stats, game, mc>>

LabelOpponentCall ==
    /\ \E player_id \in PlayerIds, playstyle \in LabelInputs :
         /\ call' = [op |-> "label_opponent", player_id |-> player_id,
                     playstyle |-> playstyle]
         /\ IF LabelOpponentRaises(playstyle)
            THEN /\ ret' = [op |-> "label_opponent", raised |-> TRUE]
                 /\ UNCHANGED <<opponent_model, csv_file>>
            ELSE /\ ret' = [op |-> "label_opponent", raised |-> FALSE]
                 /\ opponent_model' = label_opponent(opponent_model, player_id, playstyle)
                 /\ csv_file' = WriteCsv(label_opponent(opponent_model, player_id, playstyle).data)
    /\ UNCHANGED <<bluff_stats, game, mc>>

TrainModelCall ==
    /\ call' = [op |-> "train_model"]
    /\ ret' = [op |-> "train_model", value |-> train_model(opponent_model).value]
    /\ opponent_model' = train_model(opponent_model).om
    /\ UNCHANGED <<csv_file, bluff_stats, game, mc>>

PredictPlaystyleCall ==
    /\ \E player_id \in PlayerIds :
         /\ call' = [op |-> "predict_playstyle", player_id |-> player_id]
         /\ \E playstyle \in predict_playstyle(opponent_model, player_id) :
              ret' = [op |-> "predict_playstyle", raised |-> FALSE, value |-> playstyle]
         /\ opponent_model' = CacheFeatures(opponent_model, player_id)
    /\ UNCHANGED <<csv_file, bluff_stats, game, mc>>

NextProfile ==
    \/ ObserveCall
    \/ LabelOpponentCall
    \/ TrainModelCall
    \/ PredictPlaystyleCall

SpecProfile ==
    InitProfile /\ [][NextProfile]_vars

\* a step that is a call of predict_playstyle
Predicted ==
    ret'.op = "predict_playstyle"

\* C11: whenever predict_playstyle is called for a player with fewer than
\* min_hands_for_ml recorded rounds, or on a model that was never trained,
\* it raises nothing and returns the label _heuristic_playstyle gives for
\* that player in the state of the call, which is 'unknown' for a player
\* without records; this includes the calls with min_hands_for_ml records or
\* more on an untrained model.
C11_PredictFallsBackToHeuristic ==
    [][(/\ Predicted
        /\ \/ opponent_model.opponent_hands_count[call'.player_id] < min_hands_for_ml
           \/ ~opponent_model.fitted)
       => /\ ~ret'.raised
          /\ ret'.value = _heuristic_playstyle(opponent_model, call'.player_id)
          /\ opponent_model.opponent_data[call'.player_id] = <<>>
                => ret'.value = "unknown"]_vars

\* predict_playstyle answered for a player with min_hands_for_ml records on
\* an untrained model, and the answer is a playstyle
C11_Witness ==
    /\ ret.op = "predict_playstyle"
    /\ opponent_model.opponent_hands_count[call.player_id] >= min_hands_for_ml
    /\ ~opponent_model.fitted
    /\ ret.value \in playstyle_labels

\* a step that is a call of label_opponent
Labelled ==
    ret'.op = "label_opponent"

\* the rows after player_id was given the label, all else as it was
Relabelled(rows, player_id, label) ==
    [i \in DOMAIN rows |->
        IF rows[i].player_id = player_id
        THEN [rows[i] EXCEPT !.playstyle_label = label]
        ELSE rows[i]]

\* C12: label_opponent(player_id, playstyle) with playstyle one of
\* aggressive, passive, tight, loose gives that label to every stored row of
\* the player, in data and in the csv file, and changes no row of another
\* player and no other field; with any other playstyle, 'unknown' included,
\* it raises and leaves every stored row and label as it was.
C12_LabelOpponent ==
    [][Labelled =>
        IF call'.playstyle \in {"aggressive", "passive", "tight", "loose"}
        THEN /\ ~ret'.raised
             /\ opponent_model'.data
                    = Relabelled(opponent_model.data, call'.player_id, call'.playstyle)
             /\ csv_file' = Relabelled(csv_file, call'.player_id, call'.playstyle)
             /\ opponent_model' = [opponent_model EXCEPT !.data = opponent_model'.data]
        ELSE /\ ret'.raised
             /\ opponent_model' = opponent_model
             /\ csv_file' = csv_file]_vars

\* label_opponent has labelled the rows of one player while the stored rows
\* of the other player carry another label or none
C12_Witness ==
    /\ ret.op = "label_opponent"
    /\ ~ret.raised
    /\ \E i, j \in DOMAIN opponent_model.data :
         /\ opponent_model.data[i].player_id = call.player_id
         /\ opponent_model.data[i].playstyle_label = call.playstyle
         /\ opponent_model.data[j].player_id # call.player_id
         /\ opponent_model.data[j].playstyle_label # call.playstyle
         /\ csv_file[i].playstyle_label = call.playstyle
         /\ csv_file[j].playstyle_label # call.playstyle

=============================================================================
